---- MODULE Spec2Model ----
(***************************************************************************)
(* Model of the notebook 1qubit_CrossmonExample.ipynb: the closed-form     *)
(* derivation of the target capacitance and inductance of a Crossmon       *)
(* qubit, the creation of the planar design with the component 'Q1', the   *)
(* Q3D capacitance extraction, the HFSS eigenmode run and the final        *)
(* expected-frequency cell.                                                *)
(*                                                                         *)
(* Python floats are IEEE-754 binary64 numbers.  They are modelled bit for *)
(* bit: a float is a record [m, e] standing for m * 2^e with a 53-bit      *)
(* mantissa m, and every operation rounds its exact result to the nearest  *)
(* such number, ties to even.  Mantissas and exact intermediate results    *)
(* are multi-limb naturals (TLC integers are 32 bits wide).  All values of *)
(* the notebook are positive and in the normal range, so signs,            *)
(* subnormals and infinities are not represented.                          *)
(***************************************************************************)
EXTENDS Integers, Sequences, FiniteSets, TLC

----------------------------------------------------------------------------
(* Multi-limb naturals: little-endian sequences of limbs in 0..Base-1,     *)
(* without leading (= trailing in the sequence) zero limbs; <<>> is 0.     *)
(* The arithmetic is written as functions, which take their arguments by   *)
(* value.                                                                  *)

Base == 2^15

Num == Seq(0..(Base - 1))

Limb(a, i) == IF 1 <= i /\ i <= Len(a) THEN a[i] ELSE 0

Max(S) == CHOOSE x \in S : \A y \in S : y <= x

\* the sequence of the values f[1], ..., f[n]
AsSeq(f, n) == SubSeq(f, 1, n)

\* a without its leading zero limbs
BNorm[a \in Num] ==
    LET nz == {i \in 1..Len(a) : a[i] # 0}
    IN  IF nz = {} THEN <<>> ELSE SubSeq(a, 1, Max(nz))

BFromInt[n \in Nat] ==
    IF n = 0 THEN <<>> ELSE <<n % Base>> \o BFromInt[n \div Base]

BToInt[a \in Num] == IF a = <<>> THEN 0 ELSE a[1] + Base * BToInt[Tail(a)]

\* a + b: limb sums s, and the carry c[i] into limb i, which is 1 exactly
\* when a limb below i overflows and every limb between is Base - 1
BAdd[a \in Num, b \in Num] ==
    LET n == IF Len(a) > Len(b) THEN Len(a) ELSE Len(b)
        s == [i \in 1..n |-> Limb(a, i) + Limb(b, i)]
        c == [i \in 1..(n + 1) |->
                IF \E j \in 1..(i - 1) :
                      /\ s[j] >= Base
                      /\ \A k \in (j + 1)..(i - 1) : s[k] = Base - 1
                THEN 1 ELSE 0]
    IN  BNorm[AsSeq([i \in 1..(n + 1) |->
                        IF i <= n THEN (s[i] + c[i]) % Base ELSE c[i]], n + 1)]

\* a - b for a >= b: limb differences d, and the borrow br[i] from limb i
BSub[a \in Num, b \in Num] ==
    LET n  == Len(a)
        d  == [i \in 1..n |-> a[i] - Limb(b, i)]
        br == [i \in 1..n |->
                 IF \E j \in 1..(i - 1) :
                       /\ d[j] < 0
                       /\ \A k \in (j + 1)..(i - 1) : d[k] = 0
                 THEN 1 ELSE 0]
    IN  BNorm[AsSeq([i \in 1..n |-> (d[i] - br[i] + Base) % Base], n)]

\* -1, 0, 1 as a < b, a = b, a > b (a, b without leading zero limbs)
BCmp[a \in Num, b \in Num] ==
    IF Len(a) < Len(b) THEN -1
    ELSE IF Len(a) > Len(b) THEN 1
    ELSE LET diff == {i \in 1..Len(a) : a[i] # b[i]}
         IN  IF diff = {} THEN 0
             ELSE IF a[Max(diff)] < b[Max(diff)] THEN -1 ELSE 1

\* a * Base^n
BShift[a \in Num, n \in Nat] ==
    IF a = <<>> THEN <<>> ELSE [i \in 1..n |-> 0] \o a

\* a * k for a limb k in 0..Base-1: the low halves of the limb products
\* plus their high halves one limb up
BMulSmall[a \in Num, k \in 0..(Base - 1)] ==
    BAdd[BNorm[AsSeq([i \in 1..Len(a) |-> (a[i] * k) % Base], Len(a))],
         BShift[BNorm[AsSeq([i \in 1..Len(a) |-> (a[i] * k) \div Base],
                            Len(a))], 1]]

\* acc + a * (the limbs i.. of b) * Base^(i-1)
BMulFrom[a \in Num, b \in Num, i \in Nat, acc \in Num] ==
    IF i > Len(b) THEN acc
    ELSE BMulFrom[a, b, i + 1, BAdd[acc, BShift[BMulSmall[a, b[i]], i - 1]]]

BMul[a \in Num, b \in Num] == BMulFrom[a, b, 1, <<>>]

SmallBitLen[n \in Nat] == IF n = 0 THEN 0 ELSE 1 + SmallBitLen[n \div 2]

\* the number of bits of a > 0
BitLen[a \in Num] == 15 * (Len(a) - 1) + SmallBitLen[a[Len(a)]]

\* a * 2^n
BMulPow2[a \in Num, n \in Nat] == BShift[BMulSmall[a, 2^(n % 15)], n \div 15]

\* floor(a / 2^n)
BDivPow2[a \in Num, n \in Nat] ==
    LET w == n \div 15
        t == n % 15
    IN  BNorm[AsSeq([i \in 1..(Len(a) - w) |->
                        Limb(a, i + w) \div 2^t
                        + (Limb(a, i + w + 1) % 2^t) * 2^(15 - t)],
                    IF Len(a) > w THEN Len(a) - w ELSE 0)]

\* 10^n
BPow10[n \in Nat] ==
    IF n <= 9 THEN BFromInt[10^n]
    ELSE BMul[BPow10[n - 9], BFromInt[10^9]]

\* the largest d with b * d <= r, for r < b * Base and the top limb of b at
\* least Base / 2: the quotient of the two top limbs of r by the top limb of
\* b is d, d + 1 or d + 2
BQDigit[r \in Num, b \in Num] ==
    LET n  == Len(b)
        q0 == (Limb(r, n + 1) * Base + Limb(r, n)) \div b[n]
        q  == IF q0 > Base - 1 THEN Base - 1 ELSE q0
    IN  q - Cardinality({c \in (q - 1)..q :
                            c >= 0 /\ BCmp[BMulSmall[b, c], r] > 0})

\* the quotient digits i..1 of a by b, before the digits acc; r is what is
\* left of the limbs above i, followed by limb i
BDivFrom[a \in Num, b \in Num, i \in Nat, r \in Num, acc \in Num] ==
    LET d == BQDigit[r, b]
    IN  IF i = 1 THEN <<d>> \o acc
        ELSE BDivFrom[a, b, i - 1,
                      BNorm[<<a[i - 1]>> \o BSub[r, BMulSmall[b, d]]],
                      <<d>> \o acc]

\* floor(a / b) for b with its top limb at least Base / 2
BDivScaled[a \in Num, b \in Num] ==
    IF Len(a) < Len(b) THEN <<>>
    ELSE BNorm[BDivFrom[a, b, Len(a) - Len(b) + 1,
                        BNorm[SubSeq(a, Len(a) - Len(b) + 1, Len(a))], <<>>]]

\* floor(a / b) for b > 0: long division of a by b, both scaled to bring the
\* top limb of b to Base / 2 or more, starting below the top limbs of a
\* that are less than b
BDiv[a \in Num, b \in Num] ==
    LET t == 2^(15 - SmallBitLen[b[Len(b)]])
    IN  BDivScaled[BMulSmall[a, t], BMulSmall[b, t]]

\* Newton's iteration from x >= floor(sqrt(a)) down to floor(sqrt(a)); y is
\* the iterate after x
NewtonStep[a \in Num, x \in Num] == BDivPow2[BAdd[x, BDiv[a, x]], 1]

BNewton[a \in Num, x \in Num, y \in Num] ==
    IF BCmp[y, x] >= 0 THEN x ELSE BNewton[a, y, NewtonStep[a, y]]

BSqrtFrom[a \in Num, x \in Num] == BNewton[a, x, NewtonStep[a, x]]

\* floor(sqrt(a)): Newton's iteration from the root of the top 29 or 30
\* bits of a, rounded up
BSqrt[a \in Num] ==
    IF a = <<>> THEN <<>>
    ELSE IF BitLen[a] <= 30
    THEN LET top == BToInt[a]
         IN  BFromInt[CHOOSE g \in 0..Base :
                         g * g <= top /\ top < (g + 1) * (g + 1)]
    ELSE LET s == IF (BitLen[a] - 30) % 2 = 0 THEN BitLen[a] - 30
                  ELSE BitLen[a] - 29
             top == BToInt[BDivPow2[a, s]]
             g == CHOOSE g \in 1..Base :
                     (g - 1) * (g - 1) <= top /\ top < g * g
         IN  BSqrtFrom[a, BMulPow2[BFromInt[g], s \div 2]]

\* the decimal number written hi followed by the n digits of lo
BDec(hi, lo, n) == BAdd[BMul[BFromInt[hi], BPow10[n]], BFromInt[lo]]

----------------------------------------------------------------------------
(* binary64 arithmetic, round to nearest, ties to even.                    *)

\* the implicit leading bit and the 52 stored bits of the significand
Precision == 1 + 52

Float == [m : Num, e : Int]

FZero == [m |-> <<>>, e |-> 0]

\* q * 2^x (plus a nonzero fraction below q's last bit when sticky), for q
\* of at least Precision + 2 bits, rounded to Precision bits
Renorm[m1 \in Num, x \in Int] ==
    IF BitLen[m1] > Precision THEN [m |-> BDivPow2[m1, 1], e |-> x + 1]
    ELSE [m |-> m1, e |-> x]

\* c is -1, 0, 1 as the bits cut off below m0 are less than, equal to or
\* more than half a unit of m0's last bit
RoundHalfEven[m0 \in Num, c \in Int, sticky \in BOOLEAN, x \in Int] ==
    Renorm[IF c > 0 \/ (c = 0 /\ (sticky \/ m0[1] % 2 = 1))
           THEN BAdd[m0, <<1>>] ELSE m0, x]

CutBits[q \in Num, m0 \in Num, shift \in Nat, sticky \in BOOLEAN, x \in Int] ==
    RoundHalfEven[m0, BCmp[BSub[q, BMulPow2[m0, shift]],
                           BMulPow2[<<1>>, shift - 1]], sticky, x + shift]

RoundBits[q \in Num, sticky \in BOOLEAN, x \in Int] ==
    CutBits[q, BDivPow2[q, BitLen[q] - Precision], BitLen[q] - Precision,
            sticky, x]

\* the float nearest to (n / d) * 2^x, for n, d > 0
RoundQuotient[n \in Num, d \in Num, q \in Num, x \in Int] ==
    RoundBits[q, BMul[q, d] # n, x]

FromRatioBy[n \in Num, d \in Num, x \in Int, k \in Nat] ==
    RoundQuotient[BMulPow2[n, k], d, BDiv[BMulPow2[n, k], d], x - k]

FromRatio[n \in Num, d \in Num, x \in Int] ==
    FromRatioBy[n, d, x, Max({0, Precision + 3 - (BitLen[n] - BitLen[d])})]

\* the literal <mant>e<dexp>
FLitBy[mant \in Num, dexp \in Int, p \in Num] ==
    FromRatio[IF dexp >= 0 THEN BMul[mant, p] ELSE mant,
              IF dexp >= 0 THEN <<1>> ELSE p, 0]

FLit[mant \in Num, dexp \in Int] ==
    IF mant = <<>> THEN FZero
    ELSE FLitBy[mant, dexp, BPow10[IF dexp >= 0 THEN dexp ELSE 0 - dexp]]

\* a * b
FMul[a \in Float, b \in Float] ==
    IF a = FZero \/ b = FZero THEN FZero
    ELSE FromRatio[BMul[a.m, b.m], <<1>>, a.e + b.e]

\* a / b for b # 0 (Python raises ZeroDivisionError otherwise)
FDiv[a \in Float, b \in Float] ==
    IF a = FZero \/ b = FZero THEN FZero
    ELSE FromRatio[a.m, b.m, a.e - b.e]

\* np.sqrt(a)
RoundRoot[r \in Num, s \in Num, x \in Int] == RoundBits[s, BMul[s, s] # r, x]

\* the root of r * 2^(2x), for r of 111 or 112 bits
FSqrtOf[r \in Num, x \in Int] == RoundRoot[r, BSqrt[r], x]

FSqrt[a \in Float] ==
    IF a = FZero THEN FZero
    ELSE FSqrtOf[BMulPow2[a.m, 58 + (a.e % 2)],
                 (a.e - 58 - (a.e % 2)) \div 2]

\* floor(a / 10^u) for a float a and a decimal exponent u
FloorBy[a \in Float, u \in Int, p \in Num] ==
    BDiv[IF a.e >= 0
         THEN BMulPow2[IF u < 0 THEN BMul[a.m, p] ELSE a.m, a.e]
         ELSE BDivPow2[IF u < 0 THEN BMul[a.m, p] ELSE a.m, 0 - a.e],
         IF u < 0 THEN <<1>> ELSE p]

FloorTo[a \in Float, u \in Int] ==
    FloorBy[a, u, BPow10[IF u < 0 THEN 0 - u ELSE u]]

\* a rounded to the nearest multiple of 10^u (halves up), counted in 10^u
RoundTo[a \in Float, u \in Int] == BDiv[BAdd[FloorTo[a, u - 1], <<5>>], <<10>>]

----------------------------------------------------------------------------
(* print(x) of a float x: the shortest decimal that reads back as x (the   *)
(* repr of a Python float), for 1e-4 <= x < 1e16, where repr writes the    *)
(* digits positionally.  A decimal is [d, x], standing for d * 10^x, d     *)
(* without trailing zeros.                                                 *)

\* k with 10^k <= a < 10^(k+1)
DecExp[a \in Float] == Max({k \in (0 - 4)..15 : FloorTo[a, k] # <<>>})

\* a modulo the small number k
BModSmall[a \in Num, k \in Nat] ==
    IF a = <<>> THEN 0 ELSE (a[1] + (Base % k) * BModSmall[Tail(a), k]) % k

DecNorm[d \in Num, x \in Int] ==
    IF d # <<>> /\ BModSmall[d, 10] = 0 THEN DecNorm[BDiv[d, <<10>>], x + 1]
    ELSE [d |-> d, x |-> x]

\* a rounded to n, n + 1, ... significant digits, until it reads back as a;
\* d is a rounded to n digits, and 10^k <= a < 10^(k+1)
ReprFrom[a \in Float, k \in Int, n \in Nat, d \in Num] ==
    IF n >= 17 \/ FLit[d, k + 1 - n] = a THEN DecNorm[d, k + 1 - n]
    ELSE ReprFrom[a, k, n + 1, RoundTo[a, k - n]]

ReprAt[a \in Float, k \in Int] == ReprFrom[a, k, 1, RoundTo[a, k]]

Repr(a) == ReprAt[a, DecExp[a]]

----------------------------------------------------------------------------
(* The notebook's arithmetic, operation by operation in Python's order of  *)
(* evaluation (/ and * associate to the left, ** binds tighter).           *)

\* 1.60217657e-19, 6.62606957e-34
ElectronCharge == FLit[BFromInt[160217657], 0 - 27]
Planck == FLit[BFromInt[662606957], 0 - 42]

\* np.pi, the float 3.141592653589793
np_pi == FLit[BDec(31415926, 53589793, 8), 0 - 15]

FInt(n) == FLit[BFromInt[n], 0]

\* n megahertz as a float of hertz: the literals 250e6 and 5e9
MHz(n) == FLit[BFromInt[n], 6]

\* a**2
Square[a \in Float] == FMul[a, a]

\* the capacitance without the 2 of 2*h*alpha
CapacitanceNoHalf(e, h, alpha) == FDiv[FDiv[Square[e], h], alpha]

\* C=e**2/2/h/alpha
CapacitanceOf(e, h, alpha) == FDiv[FDiv[FDiv[Square[e], FInt(2)], h], alpha]

\* L=1/C/(2*np.pi*f)**2
InductanceOf(C, f) ==
    FDiv[FDiv[FInt(1), C], Square[FMul[FMul[FInt(2), np_pi], f]]]

\* the angular frequency 1/sqrt(L*C), without the division by 2*pi
AngularFrequencyOf(L, C) == FDiv[FInt(1), FSqrt[FMul[L, C]]]

\* 1/np.sqrt(L*C)/2/np.pi
FrequencyOf(L, C) ==
    FDiv[FDiv[FDiv[FInt(1), FSqrt[FMul[L, C]]], FInt(2)], np_pi]

----------------------------------------------------------------------------
(* The notebook.  Its code cells run top to bottom in one kernel, each     *)
(* cell to its end before the next starts.  A cell that reads a name the   *)
(* kernel has not bound raises NameError, and the run stops there.  The    *)
(* Ansys solver is outside the repository: only the requests the notebook  *)
(* sends to it and the results it hands back are modelled.                 *)

VARIABLES
    pc,         \* the id of the cell to run next, or "done"
    err,        \* the exception that stopped the run, or "None"
    ns,         \* the kernel's namespace: the names bound, with their values
    stdout,     \* the decimals printed, in order
    Out,        \* the value each cell displayed, by cell id
    executed,   \* the ids of the cells that ran to their end, in order
    requests    \* the runs sent to the solver, in order, with their progress

vars == <<pc, err, ns, stdout, Out, executed, requests>>

\* the cells with the extraction moved above the cell that makes 'Q1'
CellOrderRunFirst ==
    <<"b3a8e268", "76553498", "8b0ea09c", "6eb881e6",
      "d3bc4673", "946575b4", "352705d2", "b9584025">>

\* the code cells, in the order of the file
CellOrder ==
    <<"b3a8e268", "76553498", "8b0ea09c", "d3bc4673",
      "6eb881e6", "946575b4", "352705d2", "b9584025">>

Index(id) == CHOOSE i \in 1..Len(CellOrder) : CellOrder[i] = id

\* the cell below id, or "done" below the last one
Below(id) ==
    IF Index(id) = Len(CellOrder) THEN "done" ELSE CellOrder[Index(id) + 1]

Bind(n, name, v) == (name :> v) @@ n

Defined(names) == names \subseteq DOMAIN ns

\* the cell at pc may start: no exception so far, no solver run in progress
AtCell(id) ==
    /\ pc = id
    /\ err = "None"
    /\ \A i \in 1..Len(requests) : requests[i].state = "returned"

NameError ==
    /\ err' = "NameError"
    /\ UNCHANGED <<pc, ns, stdout, Out, executed, requests>>

Finish(id) ==
    /\ pc' = Below(id)
    /\ executed' = Append(executed, id)
    /\ err' = err

\* --- cell b3a8e268 ---

\* C=e**2/2/h/alpha; L=1/C/(2*np.pi*f)**2, in the namespace n
WithCL(n, C) == Bind(Bind(n, "C", C), "L", InductanceOf(C, n.f))

Derivation(n) == WithCL(n, CapacitanceOf(n.e, n.h, n.alpha))

\* print(C/1e-15); print(L/1e-9)
PrintCL(n) ==
    <<Repr(FDiv[n.C, FLit[<<1>>, 0 - 15]]), Repr(FDiv[n.L, FLit[<<1>>, 0 - 9]])>>

\* import numpy as np; e = ...; h = ...; alpha=...; f=...
Targets(n, alpha, f) ==
    Bind(Bind(Bind(Bind(Bind(n, "np", "numpy"), "e", ElectronCharge),
                   "h", Planck), "alpha", alpha), "f", f)

Cell_b3a8e268 ==
    /\ AtCell("b3a8e268")
    /\ ns' = Derivation(Targets(ns, MHz(250), MHz(5000)))
    /\ stdout' = stdout \o PrintCL(ns')
    /\ Finish("b3a8e268")
    /\ UNCHANGED <<Out, requests>>

\* --- cell 76553498 ---

Cell_76553498 ==
    /\ AtCell("76553498")
    /\ ns' = Bind(Bind(Bind(Bind(Bind(Bind(ns,
                 "metal", "qiskit_metal"),
                 "designs", "qiskit_metal.designs"),
                 "draw", "qiskit_metal.draw"),
                 "MetalGUI", "qiskit_metal.MetalGUI"),
                 "Dict", "qiskit_metal.Dict"),
                 "open_docs", "qiskit_metal.open_docs")
    /\ Finish("76553498")
    /\ UNCHANGED <<stdout, Out, requests>>

\* --- cell 8b0ea09c ---

\* designs.DesignPlanar(): no component yet
DesignPlanar == [overwrite_enabled |-> FALSE, components |-> <<>>]

\* MetalGUI(design): a window on the design, showing what was last rebuilt
MetalGUI(design) == [design |-> design, shown |-> {}, autoscaled |-> FALSE]

Cell_8b0ea09c ==
    /\ AtCell("8b0ea09c")
    /\ IF ~Defined({"designs", "MetalGUI"}) THEN NameError
       ELSE /\ ns' = Bind(Bind(ns, "design", DesignPlanar),
                          "gui", MetalGUI("design"))
            /\ Finish("8b0ea09c")
            /\ UNCHANGED <<stdout, Out, requests>>

\* --- cell d3bc4673 ---

design_options ==
    [cross_width     |-> <<"2", "0", "u", "m">>,
     cross_length    |-> <<"1", "4", "5", "u", "m">>,
     cross_gap       |-> <<"2", "0", "u", "m">>,
     hfss_inductance |-> <<"1", "3", "n", "H">>,
     pos_x           |-> <<"2", "m", "m">>]

\* TransmonCross(design, name, options=options): the component takes its
\* place in the design under its name, unless the name is taken and the
\* design does not allow overwriting
TransmonCross(design, name, options) ==
    IF name \in DOMAIN design.components /\ ~design.overwrite_enabled
    THEN design
    ELSE [design EXCEPT !.components =
             Bind(@, name, [class |-> "TransmonCross", options |-> options])]

Cell_d3bc4673 ==
    /\ AtCell("d3bc4673")
    /\ IF ~Defined({"design", "gui"}) THEN NameError
       ELSE LET enabled == [ns.design EXCEPT !.overwrite_enabled = TRUE]
                design  == TransmonCross(enabled, "Q1", design_options)
                gui     == [ns.gui EXCEPT !.shown = DOMAIN design.components,
                                          !.autoscaled = TRUE]
            IN  /\ ns' = Bind(Bind(Bind(Bind(Bind(ns,
                             "TransmonCross", "qiskit_metal.qlibrary"),
                             "design_options", design_options),
                             "design", design),
                             "q1", "Q1"),
                             "gui", gui)
                /\ Finish("d3bc4673")
                /\ UNCHANGED <<stdout, Out, requests>>

\* --- cell 6eb881e6 ---

\* LOManalysis(design, "q3d"), EPRanalysis(design, "hfss")
Analysis(class, design, renderer, setup) ==
    [class |-> class, design |-> design, renderer |-> renderer,
     setup |-> setup, result |-> <<>>]

\* the keyword arguments of c1.sim.run
Q3DRunArgs == [components |-> <<"Q1">>, open_terminations |-> <<>>]

\* sim.run(**args) of an analysis: the design as it is now is rendered and
\* the solver is set to work on it
Run(analysis, args) ==
    [renderer |-> analysis.renderer,
     args     |-> args,
     rendered |-> ns[analysis.design].components,
     setup    |-> analysis.setup,
     state    |-> "solving",
     pass     |-> 0,
     delta_f  |-> 0,
     result   |-> <<>>]

InFlight(renderer, state) ==
    /\ err = "None"
    /\ requests # <<>>
    /\ requests[Len(requests)].renderer = renderer
    /\ requests[Len(requests)].state = state

Cell_6eb881e6_Run ==
    /\ AtCell("6eb881e6")
    /\ IF ~Defined({"design"}) THEN NameError
       ELSE LET c1 == Analysis("LOManalysis", "design", "q3d", <<>>)
            IN  /\ ns' = Bind(Bind(ns, "LOManalysis", "qiskit_metal.analyses"),
                              "c1", c1)
                /\ requests' = Append(requests, Run(c1, Q3DRunArgs))
                /\ UNCHANGED <<pc, err, stdout, Out, executed>>

MaxQ3DOutcome == 2

\* a capacitance matrix the extraction may return, in 1e-5 fF: the one the
\* notebook recorded, with k more units between the cross and the ground
Q3DMatrix(k) ==
    [cross_Q1          |-> [cross_Q1          |-> 7796968 + k,
                            ground_main_plane |-> 0 - 7677556 - k],
     ground_main_plane |-> [cross_Q1          |-> 0 - 7677556 - k,
                            ground_main_plane |-> 12201138 + k]]

\* the solver finishes the extraction
Q3DSolve ==
    /\ InFlight("q3d", "solving")
    /\ \E k \in 0..MaxQ3DOutcome :
          requests' = [requests EXCEPT ![Len(requests)] =
                          [@ EXCEPT !.state = "solved", !.result = Q3DMatrix(k)]]
    /\ UNCHANGED <<pc, err, ns, stdout, Out, executed>>

\* c1.sim.run returns; c1.sim.capacitance_matrix is displayed
Cell_6eb881e6_Read ==
    /\ pc = "6eb881e6"
    /\ InFlight("q3d", "solved")
    /\ requests' = [requests EXCEPT ![Len(requests)].state = "returned"]
    /\ ns' = [ns EXCEPT !.c1.result = requests[Len(requests)].result]
    /\ Out' = Bind(Out, "6eb881e6", ns'.c1.result)
    /\ Finish("6eb881e6")
    /\ UNCHANGED stdout

\* --- cell 946575b4 ---

\* a setup whose vars were left at Lj = '10 nH'
EigSetupOtherLj ==
    [name                  |-> "Setup",
     reuse_selected_design |-> TRUE,
     reuse_setup           |-> TRUE,
     min_freq_ghz          |-> 1,
     n_modes               |-> 1,
     max_delta_f           |-> [d |-> 1, x |-> 0 - 1],
     max_passes            |-> 12,
     min_passes            |-> 1,
     min_converged         |-> 1,
     pct_refinement        |-> 30,
     basis_order           |-> 1,
     vars                  |-> [Lj |-> <<"1", "0", " ", "n", "H">>,
                                Cj |-> <<"0", " ", "f", "F">>]]

\* eig_1qb.sim.setup as the cell leaves and displays it; max_delta_f is the
\* decimal 0.1
EigSetup ==
    [name                  |-> "Setup",
     reuse_selected_design |-> TRUE,
     reuse_setup           |-> TRUE,
     min_freq_ghz          |-> 1,
     n_modes               |-> 1,
     max_delta_f           |-> [d |-> 1, x |-> 0 - 1],
     max_passes            |-> 12,
     min_passes            |-> 1,
     min_converged         |-> 1,
     pct_refinement        |-> 30,
     basis_order           |-> 1,
     vars                  |-> [Lj |-> <<"1", "3", " ", "n", "H">>,
                                Cj |-> <<"0", " ", "f", "F">>]]

Cell_946575b4 ==
    /\ AtCell("946575b4")
    /\ IF ~Defined({"design", "Dict"}) THEN NameError
       ELSE /\ ns' = Bind(Bind(Bind(ns, "epr", "pyEPR"),
                               "EPRanalysis", "qiskit_metal.analyses"),
                          "eig_1qb",
                          Analysis("EPRanalysis", "design", "hfss", EigSetup))
            /\ Out' = Bind(Out, "946575b4", ns'.eig_1qb.setup)
            /\ Finish("946575b4")
            /\ UNCHANGED <<stdout, requests>>

\* --- cell 352705d2 ---

\* a run that leaves a pin of 'Q1' open
HfssRunArgsOpenPin ==
    [components |-> <<"Q1">>, open_terminations |-> <<<<"Q1", "a">>>>,
     port_list |-> <<>>]

\* the keyword arguments of eig_1qb.sim.run
HfssRunArgs ==
    [components |-> <<"Q1">>, open_terminations |-> <<>>, port_list |-> <<>>]

Cell_352705d2_Run ==
    /\ AtCell("352705d2")
    /\ IF ~Defined({"eig_1qb"}) THEN NameError
       ELSE /\ requests' = Append(requests, Run(ns.eig_1qb, HfssRunArgs))
            /\ UNCHANGED <<pc, err, ns, stdout, Out, executed>>

MaxDeltaF == 2

\* the change of frequency an adaptive pass may report, in the unit of
\* max_delta_f: 0, 0.1, 0.2, ...
DeltaF(k) == [d |-> k, x |-> 0 - 1]

\* a <= b for decimals [d, x] with small d
DecLeq(a, b) ==
    LET x == IF a.x < b.x THEN a.x ELSE b.x
    IN  a.d * 10^(a.x - x) <= b.d * 10^(b.x - x)

\* one adaptive pass of the eigenmode solver: it stops when a pass, the
\* min_passes-th at the earliest, changes the frequency by max_delta_f at
\* most, or after max_passes passes
HfssPass ==
    /\ InFlight("hfss", "solving")
    /\ \E k \in 0..MaxDeltaF :
          LET r     == requests[Len(requests)]
              pass  == r.pass + 1
              stop  == \/ pass >= r.setup.max_passes
                       \/ /\ pass >= r.setup.min_passes
                          /\ pass > 1
                          /\ DecLeq(DeltaF(k), r.setup.max_delta_f)
          IN  requests' = [requests EXCEPT ![Len(requests)] =
                  [r EXCEPT !.pass = pass, !.delta_f = k,
                            !.state = IF stop THEN "solved" ELSE "solving",
                            !.result = IF stop THEN <<pass>> ELSE <<>>]]
    /\ UNCHANGED <<pc, err, ns, stdout, Out, executed>>

\* eig_1qb.sim.run returns
Cell_352705d2_Return ==
    /\ pc = "352705d2"
    /\ InFlight("hfss", "solved")
    /\ requests' = [requests EXCEPT ![Len(requests)].state = "returned"]
    /\ ns' = [ns EXCEPT !.eig_1qb.result = requests[Len(requests)].result]
    /\ Finish("352705d2")
    /\ UNCHANGED <<stdout, Out>>

\* --- cell b9584025 ---

\* the literals 13e-9 and 78e-15
CheckInductance == FLit[<<13>>, 0 - 9]
CheckCapacitance == FLit[<<78>>, 0 - 15]

\* import numpy as np; f=1/np.sqrt(13e-9*78e-15)/2/np.pi
ExpectedFrequency(n) ==
    Bind(Bind(n, "np", "numpy"),
         "f", FrequencyOf(CheckInductance, CheckCapacitance))

\* print(f/1e9)
PrintF(n) == <<Repr(FDiv[n.f, FLit[<<1>>, 9]])>>

Cell_b9584025 ==
    /\ AtCell("b9584025")
    /\ ns' = ExpectedFrequency(ns)
    /\ stdout' = stdout \o PrintF(ns')
    /\ Finish("b9584025")
    /\ UNCHANGED <<Out, requests>>

\* --- the run ---

Init ==
    /\ pc = CellOrder[1]
    /\ err = "None"
    /\ ns = <<>>
    /\ stdout = <<>>
    /\ Out = <<>>
    /\ executed = <<>>
    /\ requests = <<>>

Next ==
    \/ Cell_b3a8e268
    \/ Cell_76553498
    \/ Cell_8b0ea09c
    \/ Cell_d3bc4673
    \/ Cell_6eb881e6_Run
    \/ Q3DSolve
    \/ Cell_6eb881e6_Read
    \/ Cell_946575b4
    \/ Cell_352705d2_Run
    \/ HfssPass
    \/ Cell_352705d2_Return
    \/ Cell_b9584025

Spec == Init /\ [][Next]_vars

----------------------------------------------------------------------------
(* The derivation for any targets: the statements of cell b3a8e268 after   *)
(* the targets are set, the frequency formula of cell b9584025 applied to  *)
(* the derived L and C, then cell b9584025 as it stands.                   *)

MaxAlphaIdx == 5
MaxFIdx == 5

\* anharmonicities 150, 200, ... MHz and frequencies 4, 4.25, ... GHz
AlphaGrid == {MHz(150 + 50 * i) : i \in 0..MaxAlphaIdx}
FGrid == {MHz(4000 + 250 * j) : j \in 0..MaxFIdx}

InitDerive ==
    /\ pc = "derive"
    /\ err = "None"
    /\ \E alpha \in AlphaGrid, f \in FGrid : ns = Targets(<<>>, alpha, f)
    /\ stdout = <<>>
    /\ Out = <<>>
    /\ executed = <<>>
    /\ requests = <<>>

Derive ==
    /\ pc = "derive"
    /\ ns' = Derivation(ns)
    /\ stdout' = stdout \o PrintCL(ns')
    /\ pc' = "recompute"
    /\ UNCHANGED <<err, Out, executed, requests>>

Recompute ==
    /\ pc = "recompute"
    /\ ns' = Bind(ns, "f_recomputed", FrequencyOf(ns.L, ns.C))
    /\ pc' = "expected"
    /\ UNCHANGED <<err, stdout, Out, executed, requests>>

Expected ==
    /\ pc = "expected"
    /\ ns' = ExpectedFrequency(ns)
    /\ stdout' = stdout \o PrintF(ns')
    /\ pc' = "done"
    /\ UNCHANGED <<err, Out, executed, requests>>

NextDerive ==
    \/ Derive
    \/ Recompute
    \/ Expected

SpecDerive == InitDerive /\ [][NextDerive]_vars

----------------------------------------------------------------------------
(* Reading the text of the notebook: quantities written as digits, an      *)
(* optional space, an SI prefix and a unit; and comparing floats.          *)

DigitVal ==
    ("0" :> 0) @@ ("1" :> 1) @@ ("2" :> 2) @@ ("3" :> 3) @@ ("4" :> 4) @@
    ("5" :> 5) @@ ("6" :> 6) @@ ("7" :> 7) @@ ("8" :> 8) @@ ("9" :> 9)

PrefixExp ==
    ("f" :> 0 - 15) @@ ("p" :> 0 - 12) @@ ("n" :> 0 - 9) @@ ("u" :> 0 - 6) @@
    ("m" :> 0 - 3)

ParseDigits[ds \in Seq(DOMAIN DigitVal)] ==
    IF ds = <<>> THEN 0
    ELSE 10 * ParseDigits[SubSeq(ds, 1, Len(ds) - 1)] + DigitVal[ds[Len(ds)]]

\* the number of digits s starts with
NumDigits(s) ==
    Cardinality({i \in 1..Len(s) : \A j \in 1..i : s[j] \in DOMAIN DigitVal})

\* what follows the digits of s, without spaces
UnitOf(s) ==
    SelectSeq(SubSeq(s, NumDigits(s) + 1, Len(s)), LAMBDA c : c # " ")

\* [d, x, unit]: d * 10^x units
ParseQuantity(s) ==
    [d    |-> ParseDigits[SubSeq(s, 1, NumDigits(s))],
     x    |-> IF Len(UnitOf(s)) = 2 THEN PrefixExp[UnitOf(s)[1]] ELSE 0,
     unit |-> UnitOf(s)[Len(UnitOf(s))]]

\* the float a quantity reads as
QuantityFloat(q) == FLit[BFromInt[q.d], q.x]

AbsDiff[p \in Num, q \in Num] == IF BCmp[p, q] >= 0 THEN BSub[p, q] ELSE BSub[q, p]

\* |a - b| is at most k units in the last place of b
Within(a, b, k) ==
    LET x == IF a.e < b.e THEN a.e ELSE b.e
    IN  BCmp[AbsDiff[BMulPow2[a.m, a.e - x], BMulPow2[b.m, b.e - x]],
             BMulPow2[BFromInt[k], b.e - x]] <= 0

\* e^2 / (2 h alpha) of the floats e, h, alpha, rounded once
ExactCapacitance(e, h, alpha) ==
    FromRatio[BMul[e.m, e.m], BMul[<<2>>, BMul[h.m, alpha.m]],
              2 * e.e - h.e - alpha.e]

\* 1 / ((2 pi f)^2 C) of the floats np.pi, f, C, rounded once
ExactInductance(C, f) ==
    FromRatio[<<1>>,
              BMul[BMul[<<4>>, C.m],
                   BMul[BMul[np_pi.m, f.m], BMul[np_pi.m, f.m]]],
              0 - (C.e + 2 * (np_pi.e + f.e))]

\* 77.5 fF and 13 nH, as the text after the derivation states them
StatedCapacitance == FLit[<<775>>, 0 - 16]
StatedInductance == [d |-> 13, x |-> 0 - 9, unit |-> "H"]

NotebookTargets == ns.alpha = MHz(250) /\ ns.f = MHz(5000)

----------------------------------------------------------------------------
(* The claims.                                                             *)

\* the phase of each cell: 1 derive C and L, 2 design and 'Q1', 3 Q3D
\* extraction, 4 HFSS eigenmode, 5 expected frequency
PhaseOf ==
    ("b3a8e268" :> 1) @@ ("76553498" :> 2) @@ ("8b0ea09c" :> 2) @@
    ("d3bc4673" :> 2) @@ ("6eb881e6" :> 3) @@ ("946575b4" :> 4) @@
    ("352705d2" :> 4) @@ ("b9584025" :> 5)

DoneA == Defined({"C", "L"}) /\ Len(stdout) >= 2
StartedB == Defined({"design"})
DoneB ==
    /\ Defined({"design", "gui", "q1"})
    /\ "Q1" \in DOMAIN ns.design.components
    /\ "Q1" \in ns.gui.shown
StartedC == Defined({"c1"}) \/ requests # <<>>
DoneC == "6eb881e6" \in DOMAIN Out
StartedD == Defined({"eig_1qb"})
DoneD == Defined({"eig_1qb"}) /\ ns.eig_1qb.result # <<>>
DoneE == Len(stdout) >= 3

\* C1: in a top-to-bottom run no cell fails, no cell runs twice, the cells
\* run phase by phase in the order derive, design, Q3D, HFSS, expected
\* frequency, a phase shows its first effect only when the phase before it
\* is complete, no phase leaves its effect twice, and at the end of the run
\* every phase is complete.
C1_PhasesInOrder ==
    /\ err = "None"
    /\ \A i, j \in 1..Len(executed) :
          i < j => /\ executed[i] # executed[j]
                   /\ PhaseOf[executed[i]] <= PhaseOf[executed[j]]
    /\ StartedB => DoneA
    /\ StartedC => DoneB
    /\ StartedD => DoneC
    /\ DoneE => DoneD
    /\ Len(stdout) <= 3
    /\ Len(requests) <= 2
    /\ StartedB => Cardinality(DOMAIN ns.design.components) <= 1
    /\ pc = "done" =>
          /\ DoneA /\ DoneB /\ DoneC /\ DoneD /\ DoneE
          /\ Len(stdout) = 3
          /\ {executed[i] : i \in 1..Len(executed)}
                = {CellOrder[i] : i \in 1..Len(CellOrder)}

C1_Witness == pc = "done" /\ err = "None" /\ Len(executed) = Len(CellOrder)

\* C2: the solver is sent at most two runs, the first a Q3D extraction and
\* the second an HFSS eigenmode run, each of a design that holds 'Q1', for
\* components ['Q1'] and no open terminations; the capacitance matrix the
\* notebook holds and displays is the result of the extraction, taken after
\* the extraction returned; a complete run has sent exactly the two runs.
C2_TwoRuns ==
    /\ Len(requests) <= 2
    /\ \A i \in 1..Len(requests) :
          /\ requests[i].renderer = (IF i = 1 THEN "q3d" ELSE "hfss")
          /\ "Q1" \in DOMAIN requests[i].rendered
          /\ requests[i].args.components = <<"Q1">>
          /\ requests[i].args.open_terminations = <<>>
    /\ Defined({"c1"}) /\ ns.c1.result # <<>> =>
          /\ requests[1].state = "returned"
          /\ ns.c1.result = requests[1].result
    /\ "6eb881e6" \in DOMAIN Out =>
          /\ requests[1].state = "returned"
          /\ Out["6eb881e6"] = requests[1].result
          /\ requests[1].result # <<>>
    /\ pc = "done" =>
          /\ Len(requests) = 2
          /\ \A i \in 1..2 : requests[i].state = "returned"

C2_Witness ==
    /\ pc = "done"
    /\ Len(requests) = 2
    /\ "6eb881e6" \in DOMAIN Out

\* C3: once derived, C is e^2 / (2 h alpha) to within one unit in the last
\* place and L is 1 / ((2 pi f)^2 C) to within two; for alpha = 250 MHz and
\* f = 5 GHz the two lines printed are 77.4809178907237 and
\* 13.076920924612372, and C and L are 77.5 fF and 13 nH to the nearest
\* 0.1 fF and 1 nH.
C3_Derivation ==
    pc \in {"recompute", "expected"} =>
        /\ Within(ns.C, ExactCapacitance(ns.e, ns.h, ns.alpha), 1)
        /\ Within(ns.L, ExactInductance(ns.C, ns.f), 2)
        /\ NotebookTargets =>
              /\ stdout = <<[d |-> BDec(7748091, 78907237, 8), x |-> 0 - 13],
                            [d |-> BDec(130769209, 24612372, 8), x |-> 0 - 15]>>
              /\ RoundTo[ns.C, 0 - 16] = <<775>>
              /\ RoundTo[ns.L, 0 - 9] = <<13>>

C3_Witness ==
    /\ pc = "recompute"
    /\ NotebookTargets
    /\ Len(stdout) = 2
    /\ ns.C = ExactCapacitance(ns.e, ns.h, ns.alpha)

\* C4 as stated: the frequency recomputed from the derived L and C equals
\* the target f, and the expected frequency of the notebook is 5 GHz.
C4_RoundTripExact ==
    /\ pc = "expected" => ns.f_recomputed = ns.f
    /\ pc = "done" => ns.f = MHz(5000)

\* C4: the frequency recomputed from the derived L and C is the target f to
\* within two units in the last place; for the notebook's targets it is
\* 4999999999.999999, which is 5 GHz to the nearest hertz; the expected
\* frequency the notebook prints is 4.998056418164591 GHz, which is 5 GHz to
\* the nearest 0.01 GHz.
C4_RoundTrip ==
    /\ pc = "expected" =>
          /\ Within(ns.f_recomputed, ns.f, 2)
          /\ NotebookTargets =>
                /\ ns.f_recomputed = FLit[BDec(49999999, 99999999, 8), 0 - 6]
                /\ RoundTo[ns.f_recomputed, 0] = BDec(5, 0, 9)
    /\ pc = "done" =>
          /\ stdout[3] = [d |-> BDec(49980564, 18164591, 8), x |-> 0 - 15]
          /\ RoundTo[ns.f, 7] = <<500>>

C4_Witness ==
    /\ pc = "expected"
    /\ NotebookTargets
    /\ ns.f_recomputed # ns.f

\* C5: the inductance is 13 nH wherever it appears: the derived L to the
\* nearest nH, the option hfss_inductance of 'Q1' in the design and in what
\* each run renders, the variable Lj of the setup of the eigenmode run, and
\* the inductance the expected frequency was computed from.
C5_SameInductance ==
    /\ Defined({"L"}) => RoundTo[ns.L, StatedInductance.x] = <<StatedInductance.d>>
    /\ QuantityFloat(StatedInductance) = CheckInductance
    /\ Defined({"design"}) =>
          \A c \in DOMAIN ns.design.components :
             ParseQuantity(ns.design.components[c].options.hfss_inductance)
                = StatedInductance
    /\ \A i \in 1..Len(requests) :
          /\ \A c \in DOMAIN requests[i].rendered :
                ParseQuantity(requests[i].rendered[c].options.hfss_inductance)
                   = StatedInductance
          /\ requests[i].renderer = "hfss" =>
                ParseQuantity(requests[i].setup.vars.Lj) = StatedInductance
    /\ pc = "done" =>
          ns.f = FrequencyOf(QuantityFloat(ParseQuantity(requests[2].setup.vars.Lj)),
                             CheckCapacitance)

C5_Witness ==
    /\ pc = "done"
    /\ Len(requests) = 2
    /\ requests[2].renderer = "hfss"
    /\ "Q1" \in DOMAIN requests[2].rendered

\* C6 as stated: the expected frequency of the last cell is the frequency
\* of 13 nH and the stated capacitance 77.5 fF.
C6_FromStatedCapacitance ==
    pc = "done" => ns.f = FrequencyOf(CheckInductance, StatedCapacitance)

====
